---------------------------- MODULE Spec2Model ----------------------------
(***************************************************************************)
(* Model of src/src/hello.py: the SAP table page extractor                 *)
(* (SAPTableAnalyzer), the batch loop process_tables and the driver main.  *)
(*                                                                         *)
(* Representation.  A text is a sequence of one-character strings, so that *)
(* str.strip() is computed and not assumed.  A parsed page (BeautifulSoup) *)
(* is the sequence of its h1 texts and the sequence of its tables in       *)
(* document order; a table is the sequence of its tr elements and a row    *)
(* the sequence of the texts of its td/th elements.  A Python dict with    *)
(* insertion order (structures) is a sequence of [key, value] records.     *)
(* A file is [kind, data]: "prior" (content left by an earlier run or no   *)
(* file), "empty" (truncated by open(..., "w")), "partial" (some of the    *)
(* dump flushed) and "complete" (dump finished and file closed).           *)
(***************************************************************************)
EXTENDS Naturals, Sequences, FiniteSets, TLC

\* ---------------------------------------------------------------- bounds
\* longest identifier list given to process_tables / read from the csv
MaxN == 2
\* most tr elements of a generated table (header included)
MaxRows == 4
\* most td/th elements of a generated row
MaxCells == 6

\* ----------------------------------------------------------------- texts
IsSpace(c) == c = " "

RECURSIVE lstrip(_)
lstrip(s) == IF s = <<>> THEN s
             ELSE IF IsSpace(Head(s)) THEN lstrip(Tail(s)) ELSE s

RECURSIVE rstrip(_)
rstrip(s) == IF s = <<>> THEN s
             ELSE IF IsSpace(s[Len(s)]) THEN rstrip(SubSeq(s, 1, Len(s) - 1)) ELSE s

\* str.strip()
strip(s) == rstrip(lstrip(s))

\* ------------------------------------------------------------- extractor
\* _get_description: soup.find('h1').text.strip(), "" when there is no h1
\* (None.text raises and the bare except returns "")
_get_description(soup) ==
    IF soup.headings = <<>> THEN <<>> ELSE strip(soup.headings[1])

\* mutation: the type is read from cell 2 instead of cell 3
FieldOfCols_WrongColumn(cols) ==
    [name         |-> strip(cols[1]),
     data_element |-> strip(cols[2]),
     type         |-> strip(cols[3]),
     length       |-> IF Len(cols) > 4 THEN strip(cols[5]) ELSE <<>>,
     decimals     |-> IF Len(cols) > 5 THEN strip(cols[6]) ELSE <<>>]

\* the dict built for one qualifying row (cell 2 is not read)
FieldOfCols(cols) ==
    [name         |-> strip(cols[1]),
     data_element |-> strip(cols[2]),
     type         |-> strip(cols[4]),
     length       |-> IF Len(cols) > 4 THEN strip(cols[5]) ELSE <<>>,
     decimals     |-> IF Len(cols) > 5 THEN strip(cols[6]) ELSE <<>>]

\* the loop "for row in rows": fields.append(field) for rows with >= 4 cells
RECURSIVE FieldsOfRows(_, _)
FieldsOfRows(rows, fields) ==
    IF rows = <<>> THEN fields
    ELSE LET cols == Head(rows)
         IN  FieldsOfRows(Tail(rows),
                 IF Len(cols) >= 4 THEN Append(fields, FieldOfCols(cols)) ELSE fields)

\* _get_fields: first table of the page, its rows after the first
_get_fields(soup) ==
    IF soup.tables = <<>> THEN <<>>
    ELSE LET table == soup.tables[1]
             rows  == IF table = <<>> THEN <<>> ELSE Tail(table)
         IN  FieldsOfRows(rows, <<>>)

\* get_table_info: None when the request or raise_for_status raises, else the
\* dict {table_name, description, fields} of the parsed response
NoneInfo == [is_none |-> TRUE, table_name |-> "", description |-> <<>>, fields |-> <<>>]

get_table_info(table_name, response) ==
    IF ~response.ok THEN NoneInfo
    ELSE [is_none     |-> FALSE,
          table_name  |-> table_name,
          description |-> _get_description(response.soup),
          fields      |-> _get_fields(response.soup)]

\* ------------------------------------------------------------ the inputs
Ids == {"TCURR", "MARA"}

\* identifier lists of at most MaxN names, repeated names included
Lists == UNION {[1..n -> Ids] : n \in 0..MaxN}

HeaderRow == << <<"F">>, <<"E">>, <<"K">>, <<"T">>, <<"L">>, <<"D">> >>

\* a page without h1 and without table
PageNoTable == [headings |-> <<>>, tables |-> <<>>]

\* a page whose only table has the header row and nothing else
PageHeaderOnly == [headings |-> << <<"E", "m">> >>, tables |-> << <<HeaderRow>> >>]

\* a page with two h1 and two tables; the first table has a 6-cell row, a
\* 3-cell row and a 4-cell row after its header
PageRates ==
    [headings |-> << <<" ", "R", "a", "t", "e", "s", " ">>, <<"X">> >>,
     tables   |-> << << HeaderRow,
                        << <<" ", "M", "A", "N", "D", "T">>, <<"M">>, <<"x">>,
                           <<"C", "L", "N", "T", " ">>, <<"3">>, <<"0">> >>,
                        << <<"a">>, <<"b">>, <<"c">> >>,
                        << <<"K">>, <<" ", "K", " ">>, <<>>, <<"C">> >> >>,
                     << HeaderRow, << <<"Z">>, <<"Z">>, <<"Z">>, <<"Z">> >> >> >>]

Pages == {PageNoTable, PageHeaderOnly, PageRates}

\* what session.get + raise_for_status can do: raise, or return a page
Responses == {[ok |-> FALSE, soup |-> PageNoTable]} \cup {[ok |-> TRUE, soup |-> p] : p \in Pages}

\* ----------------------------------------------------------- normalizer
\* JSON values: a dict with the keys name, description and fields, or a value
\* that is no dict (a list)
NullValue == [kind |-> "null", name |-> "", description |-> <<>>, fields |-> <<>>]

ListValue == [kind |-> "list", name |-> "", description |-> <<>>, fields |-> <<>>]

DictValue(name, description, fields) ==
    [kind |-> "dict", name |-> name, description |-> description, fields |-> fields]

\* result of generator(table_info): the call raises, or result.structure is a
\* text.  syntax "garbage" is a text like `not json`, "empty" the empty text,
\* "json" a text that json.loads accepts, with the value it denotes
NoResult == [raised |-> FALSE, syntax |-> "unset", value |-> NullValue]

Generator(table_info) ==
    { [raised |-> TRUE,  syntax |-> "unset",   value |-> NullValue],
      [raised |-> FALSE, syntax |-> "garbage", value |-> NullValue],
      [raised |-> FALSE, syntax |-> "empty",   value |-> NullValue],
      [raised |-> FALSE, syntax |-> "json",    value |-> ListValue],
      [raised |-> FALSE, syntax |-> "json",
       value |-> DictValue(table_info.table_name, <<"A", "I">>, <<>>)],
      [raised |-> FALSE, syntax |-> "json",
       value |-> DictValue(table_info.table_name, <<"A", "I">>, table_info.fields)] }

\* json.loads(result.structure): raises on anything that is not JSON
json_loads(structure) ==
    IF structure.syntax = "json" THEN [ok |-> TRUE, value |-> structure.value]
    ELSE [ok |-> FALSE, value |-> NullValue]

\* mutation: the fallback loses the order of the fields
Fallback_Reversed(table_info) ==
    DictValue(table_info.table_name, table_info.description,
              [j \in 1..Len(table_info.fields) |->
                   table_info.fields[Len(table_info.fields) + 1 - j]])

\* the basic structure built when json.loads raises
Fallback(table_info) ==
    DictValue(table_info.table_name, table_info.description, table_info.fields)

\* try: json.loads(result.structure) except: the basic structure
Normalized(table_info, result) ==
    LET parsed == json_loads(result)
    IN  IF parsed.ok THEN parsed.value ELSE Fallback(table_info)

\* truth value of a list
Truthy(list) == list # <<>>

\* ------------------------------------------------------------ dict, file
Keys(d) == {d[j].key : j \in 1..Len(d)}

Lookup(d, key) == (CHOOSE j \in 1..Len(d) : d[j].key = key) 

Value(d, key) == d[Lookup(d, key)].value

\* mutation: an assignment appends, even when the key is there
DictSet_Append(d, key, value) == Append(d, [key |-> key, value |-> value])

\* mutation: an assignment forgets the other keys
DictSet_Reset(d, key, value) == <<[key |-> key, value |-> value]>>

\* d[key] = value: a new key is appended, a known key keeps its place
DictSet(d, key, value) ==
    IF key \in Keys(d)
    THEN [j \in 1..Len(d) |-> IF d[j].key = key THEN [key |-> key, value |-> value] ELSE d[j]]
    ELSE Append(d, [key |-> key, value |-> value])

Prior == [kind |-> "prior", data |-> <<>>]

\* open(path, "w") truncates the file
Truncated == [kind |-> "empty", data |-> <<>>]

\* json.dump has flushed a part of the text of data
Partial(data) == [kind |-> "partial", data |-> data]

\* json.dump(data, f) finished and the with block closed the file
Dumped(data) == [kind |-> "complete", data |-> data]

LogRecord(level, msg, id) == [level |-> level, msg |-> msg, id |-> id]

\* ----------------------------------------------------------------- state
VARIABLES
    entry,            \* the function that was called: "main" or "process_tables"
    pc,               \* the statement to execute next
    table_names,      \* process_tables: the argument (main: tables)
    i,                \* process_tables: position of table_name in table_names
    table_info,       \* process_tables: local table_info
    result,           \* process_tables: local result
    json_structure,   \* process_tables: local json_structure
    structures,       \* process_tables: local structures, the value returned
    file,             \* output/sap_tables_structure.json
    m_table_info,     \* main: local table_info
    m_json_structure, \* main: local json_structure
    tcurr_file,       \* output/tcurr_structure.json
    log,              \* the last record written by logger
    smoke_outcome,    \* history: how the run of main for TCURR went
    k,                \* history: number of identifiers that succeeded
    succeeded,        \* history: the identifiers that succeeded
    due,              \* history: identifiers with fields whose transformer failed
    lastSnap,         \* history: the last snapshot of structures that was dumped whole
    extractor         \* the extractor run on its own: [pc, soup, fields]

vars == <<entry, pc, table_names, i, table_info, result, json_structure, structures,
          file, m_table_info, m_json_structure, tcurr_file, log, smoke_outcome,
          k, succeeded, due, lastSnap, extractor>>

batch_locals == <<table_names, i, table_info, result, json_structure, structures>>

main_locals == <<m_table_info, m_json_structure>>

history == <<smoke_outcome, k, succeeded, due, lastSnap>>

NoSnap == [some |-> FALSE, data |-> <<>>]

ExtractorIdle == [pc |-> "idle", soup |-> PageNoTable, fields |-> <<>>]

Init ==
    /\ entry \in {"main", "process_tables"}
    /\ pc = IF entry = "main" THEN "m_start" ELSE "loop"
    /\ table_names \in (IF entry = "main" THEN {<<>>} ELSE Lists)
    /\ i = 0
    /\ table_info = NoneInfo
    /\ result = NoResult
    /\ json_structure = NullValue
    /\ structures = <<>>
    /\ file = Prior
    /\ m_table_info = NoneInfo
    /\ m_json_structure = NullValue
    /\ tcurr_file = Prior
    /\ log = LogRecord("INFO", "Iniciando analisis de tablas SAP", "")
    /\ smoke_outcome = "pending"
    /\ k = 0
    /\ succeeded = {}
    /\ due = {}
    /\ lastSnap = NoSnap
    /\ extractor = ExtractorIdle

\* the claim's notion of an identifier that succeeds: the fetch returned
\* markup, the extracted fields are non-empty, the normalized schema is a
\* schema with non-empty fields
Succeeds(info, r) ==
    /\ ~info.is_none
    /\ info.fields # <<>>
    /\ ~r.raised
    /\ Normalized(info, r).kind = "dict"
    /\ Normalized(info, r).fields # <<>>

\* the transformer failures the specification lists: an error, malformed
\* JSON, empty output
TransformerFailed(r) == r.raised \/ r.syntax \in {"garbage", "empty"}

\* --------------------------------------------------------- process_tables
\* mutation: a failed identifier ends the loop
Continue_Break == "break"

\* continue: the next statement is the head of the for loop
Continue == "loop"

\* for table_name in table_names: logger.info("Procesando tabla")
NextTable ==
    /\ pc = "loop"
    /\ i < Len(table_names)
    /\ i' = i + 1
    /\ log' = LogRecord("INFO", "Procesando tabla", table_names[i + 1])
    /\ pc' = "fetch"
    /\ UNCHANGED <<entry, table_names, table_info, result, json_structure, structures,
                   file, main_locals, tcurr_file, history, extractor>>

\* return structures (main goes on to its own dump)
Return ==
    /\ pc = "loop"
    /\ i = Len(table_names)
    /\ pc' = IF entry = "main" THEN "m_open" ELSE "returned"
    /\ UNCHANGED <<entry, batch_locals, file, main_locals, tcurr_file, log, history,
                   extractor>>

\* table_info = analyzer.get_table_info(table_name) and the two checks after it
Fetch ==
    /\ pc = "fetch"
    /\ \E response \in Responses :
         LET info == get_table_info(table_names[i], response)
         IN  /\ table_info' = info
             /\ IF info.is_none
                THEN /\ log' = LogRecord("INFO", "No se encontro informacion", table_names[i])
                     /\ pc' = Continue
                ELSE IF ~Truthy(info.fields)
                THEN /\ log' = LogRecord("INFO", "no tiene campos definidos", table_names[i])
                     /\ pc' = Continue
                ELSE /\ log' = log
                     /\ pc' = "normalize"
    /\ UNCHANGED <<entry, table_names, i, result, json_structure, structures, file,
                   main_locals, tcurr_file, history, extractor>>

\* the try block up to the insertion: generator, json.loads or the basic
\* structure, the check of the fields, structures[table_name] = json_structure
Normalize ==
    /\ pc = "normalize"
    /\ \E r \in Generator(table_info) :
         LET js == Normalized(table_info, r)
             id == table_names[i]
         IN  /\ k' = IF Succeeds(table_info, r) THEN k + 1 ELSE k
             /\ succeeded' = IF Succeeds(table_info, r) THEN succeeded \cup {id} ELSE succeeded
             /\ due' = IF TransformerFailed(r) THEN due \cup {id} ELSE due
             /\ IF r.raised
                THEN \* except Exception: logger.error, continue
                     /\ log' = LogRecord("ERROR", "Error generando estructura", id)
                     /\ pc' = Continue
                     /\ UNCHANGED <<result, json_structure, structures>>
                ELSE IF js.kind # "dict"
                THEN \* json_structure.get raises AttributeError
                     /\ result' = r
                     /\ json_structure' = js
                     /\ log' = LogRecord("ERROR", "Error generando estructura", id)
                     /\ pc' = Continue
                     /\ UNCHANGED structures
                ELSE IF Truthy(js.fields)
                THEN /\ result' = r
                     /\ json_structure' = js
                     /\ structures' = DictSet(structures, id, js)
                     /\ log' = LogRecord("INFO", "Estructura generada", id)
                     /\ pc' = "open"
                ELSE /\ result' = r
                     /\ json_structure' = js
                     /\ log' = LogRecord("INFO", "no genero campos validos", id)
                     /\ pc' = Continue
                     /\ UNCHANGED structures
    /\ UNCHANGED <<entry, table_names, i, table_info, file, main_locals, tcurr_file,
                   smoke_outcome, lastSnap, extractor>>

\* with open(output_file, "w"): the file is truncated, or open raises
Open ==
    /\ pc = "open"
    /\ \/ /\ file' = Truncated
          /\ pc' = "dump"
          /\ UNCHANGED log
       \/ /\ log' = LogRecord("ERROR", "Error generando estructura", table_names[i])
          /\ pc' = Continue
          /\ UNCHANGED file
    /\ UNCHANGED <<entry, batch_locals, main_locals, tcurr_file, smoke_outcome, k,
                   succeeded, due, lastSnap, extractor>>

\* json.dump(structures, f): a part is flushed, the dump finishes and the file
\* is closed, or a write raises
Dump ==
    /\ pc = "dump"
    /\ \/ /\ file.kind = "empty"
          /\ file' = Partial(structures)
          /\ UNCHANGED <<pc, log, lastSnap>>
       \/ /\ file' = Dumped(structures)
          /\ lastSnap' = [some |-> TRUE, data |-> structures]
          /\ pc' = "loop"
          /\ UNCHANGED log
       \/ /\ log' = LogRecord("ERROR", "Error generando estructura", table_names[i])
          /\ pc' = Continue
          /\ UNCHANGED <<file, lastSnap>>
    /\ UNCHANGED <<entry, batch_locals, main_locals, tcurr_file, smoke_outcome, k,
                   succeeded, due, extractor>>

\* -------------------------------------------------------------------- main
\* mutation: the failed test does not return and main goes on to the list
SmokeReturn_Continue == "m_read"

\* return in the test of TCURR: main ends
SmokeReturn == "done"

\* table_info = analyzer.get_table_info("TCURR"); else: logger.error, return
SmokeFetch ==
    /\ pc = "m_start"
    /\ \E response \in Responses :
         LET info == get_table_info("TCURR", response)
         IN  /\ m_table_info' = info
             /\ IF info.is_none
                THEN /\ log' = LogRecord("ERROR", "No se pudo obtener informacion de TCURR", "TCURR")
                     /\ smoke_outcome' = "fetch_failed"
                     /\ pc' = SmokeReturn
                ELSE /\ UNCHANGED <<log, smoke_outcome>>
                     /\ pc' = "m_generate"
    /\ UNCHANGED <<entry, batch_locals, file, m_json_structure, tcurr_file, k, succeeded,
                   due, lastSnap, extractor>>

\* result = generator(table_info), json.loads or the basic structure; the
\* except of the test logs and returns
SmokeNormalize ==
    /\ pc = "m_generate"
    /\ \E r \in Generator(m_table_info) :
         /\ IF r.raised
            THEN /\ log' = LogRecord("ERROR", "Error en prueba con TCURR", "TCURR")
                 /\ smoke_outcome' = "raised"
                 /\ pc' = SmokeReturn
                 /\ UNCHANGED m_json_structure
            ELSE /\ m_json_structure' = Normalized(m_table_info, r)
                 /\ smoke_outcome' = "normalized"
                 /\ pc' = "m_test_open"
                 /\ UNCHANGED log
    /\ UNCHANGED <<entry, batch_locals, file, m_table_info, tcurr_file, k, succeeded,
                   due, lastSnap, extractor>>

\* with open(test_output_file, "w")
SmokeOpen ==
    /\ pc = "m_test_open"
    /\ \/ /\ tcurr_file' = Truncated
          /\ pc' = "m_test_dump"
          /\ UNCHANGED log
       \/ /\ log' = LogRecord("ERROR", "Error en prueba con TCURR", "TCURR")
          /\ pc' = SmokeReturn
          /\ UNCHANGED tcurr_file
    /\ UNCHANGED <<entry, batch_locals, file, main_locals, history, extractor>>

\* json.dump(test_structure, f) with test_structure = {test_table: json_structure}
SmokeDump ==
    /\ pc = "m_test_dump"
    /\ LET test_structure == <<[key |-> "TCURR", value |-> m_json_structure]>>
       IN  \/ /\ tcurr_file.kind = "empty"
              /\ tcurr_file' = Partial(test_structure)
              /\ UNCHANGED <<pc, log>>
           \/ /\ tcurr_file' = Dumped(test_structure)
              /\ log' = LogRecord("INFO", "FIN DE PRUEBA CON TABLA TCURR", "TCURR")
              /\ pc' = "m_read"
           \/ /\ log' = LogRecord("ERROR", "Error en prueba con TCURR", "TCURR")
              /\ pc' = SmokeReturn
              /\ UNCHANGED tcurr_file
    /\ UNCHANGED <<entry, batch_locals, file, main_locals, history, extractor>>

\* the names are read from sap_tables.csv (tables holds the cleaned names):
\* the file is missing, or it has no name, or process_tables(tables) is called
ReadList ==
    /\ pc = "m_read"
    /\ \/ /\ log' = LogRecord("INFO", "Proceso finalizado", "")
          /\ pc' = "done"
          /\ UNCHANGED table_names
       \/ \E tables \in Lists :
            IF tables = <<>>
            THEN /\ log' = LogRecord("ERROR", "El archivo sap_tables.csv esta vacio", "")
                 /\ pc' = "done"
                 /\ UNCHANGED table_names
            ELSE /\ log' = LogRecord("INFO", "Se encontraron tablas para procesar", "")
                 /\ table_names' = tables
                 /\ pc' = "loop"
    /\ UNCHANGED <<entry, i, table_info, result, json_structure, structures, file,
                   main_locals, tcurr_file, history, extractor>>

\* with open(output_file, "w") after process_tables returned; an error is
\* logged by the except of main, then "Proceso finalizado"
FinalOpen ==
    /\ pc = "m_open"
    /\ \/ /\ file' = Truncated
          /\ pc' = "m_dump"
          /\ UNCHANGED log
       \/ /\ log' = LogRecord("INFO", "Proceso finalizado", "")
          /\ pc' = "done"
          /\ UNCHANGED file
    /\ UNCHANGED <<entry, batch_locals, main_locals, tcurr_file, history, extractor>>

\* json.dump(structures, f) of main
FinalDump ==
    /\ pc = "m_dump"
    /\ \/ /\ file.kind = "empty"
          /\ file' = Partial(structures)
          /\ UNCHANGED <<pc, log, lastSnap>>
       \/ /\ file' = Dumped(structures)
          /\ lastSnap' = [some |-> TRUE, data |-> structures]
          /\ log' = LogRecord("INFO", "FIN DEL PROCESO COMPLETO", "")
          /\ pc' = "m_saved"
       \/ /\ log' = LogRecord("INFO", "Proceso finalizado", "")
          /\ pc' = "done"
          /\ UNCHANGED <<file, lastSnap>>
    /\ UNCHANGED <<entry, batch_locals, main_locals, tcurr_file, smoke_outcome, k,
                   succeeded, due, extractor>>

\* logger.info("Proceso finalizado") after the document was saved
Finish ==
    /\ pc = "m_saved"
    /\ log' = LogRecord("INFO", "Proceso finalizado", "")
    /\ pc' = "done"
    /\ UNCHANGED <<entry, batch_locals, file, main_locals, tcurr_file, history, extractor>>

\* the process is terminated: nothing runs any more, the files stay as they are
Crash ==
    /\ pc \notin {"done", "returned", "crashed"}
    /\ pc' = "crashed"
    /\ UNCHANGED <<entry, batch_locals, file, main_locals, tcurr_file, log, history,
                   extractor>>

Next ==
    \/ NextTable \/ Return \/ Fetch \/ Normalize \/ Open \/ Dump
    \/ SmokeFetch \/ SmokeNormalize \/ SmokeOpen \/ SmokeDump
    \/ ReadList \/ FinalOpen \/ FinalDump \/ Finish
    \/ Crash

Spec == Init /\ [][Next]_vars

\* ---------------------------------------------- the extractor on its own
Letter == <<"a", "b", "c", "d", "e", "f", "g", "h">>

Digit == <<"0", "1", "2", "3", "4", "5", "6", "7", "8">>

\* the text of cell c of row r, with white space around it
CellText(r, c) == <<" ", Letter[r], Digit[c], " ", " ">>

\* the table whose row r has lens[r] cells
TableOf(lens) == [r \in 1..Len(lens) |-> [c \in 1..lens[r] |-> CellText(r, c)]]

\* a page without table, with one table, or with a second table after it
DocumentOf(shape, lens) ==
    IF shape = "none" THEN PageNoTable
    ELSE [headings |-> <<>>,
          tables   |-> IF shape = "one" THEN <<TableOf(lens)>>
                       ELSE <<TableOf(lens), PageRates.tables[1]>>]

InitFields ==
    /\ entry = "process_tables"
    /\ pc = "idle"
    /\ table_names = <<>>
    /\ i = 0
    /\ table_info = NoneInfo
    /\ result = NoResult
    /\ json_structure = NullValue
    /\ structures = <<>>
    /\ file = Prior
    /\ m_table_info = NoneInfo
    /\ m_json_structure = NullValue
    /\ tcurr_file = Prior
    /\ log = LogRecord("INFO", "Iniciando analisis de tablas SAP", "")
    /\ smoke_outcome = "pending"
    /\ k = 0
    /\ succeeded = {}
    /\ due = {}
    /\ lastSnap = NoSnap
    /\ \E n \in 0..MaxRows : \E lens \in [1..n -> 0..MaxCells] :
          \E shape \in {"none", "one", "two"} :
             extractor = [pc |-> "parsed", soup |-> DocumentOf(shape, lens), fields |-> <<>>]

\* fields = self._get_fields(soup)
Extract ==
    /\ extractor.pc = "parsed"
    /\ extractor' = [extractor EXCEPT !.pc = "extracted", !.fields = _get_fields(extractor.soup)]
    /\ UNCHANGED <<entry, pc, batch_locals, file, main_locals, tcurr_file, log, history>>

NextFields == Extract

SpecFields == InitFields /\ [][NextFields]_vars

\* ================================================================ claims
InBatch == pc \in {"loop", "fetch", "normalize", "open", "dump"}

\* process_tables was called and has returned
HasReturned ==
    /\ entry = "process_tables" \/ table_names # <<>>
    /\ pc \in {"returned", "m_open", "m_dump", "m_saved", "done"}

\* a schema with at least one field
HasFields(v) == v.kind = "dict" /\ v.fields # <<>>

\* ------------------------------------------------------------------- C1
\* C1 as stated: the document main saves after process_tables has as many
\* entries as identifiers of the list succeeded.
C1_ExactlyK == pc = "m_saved" => Len(file.data) = k

\* C1 (amended): the document main saves after process_tables holds exactly
\* one entry for each distinct identifier that succeeded, and the identifiers
\* of a snapshot that was dumped whole are in every later such snapshot.
C1_OnePerSucceededIdentifier ==
    /\ [](pc = "m_saved" =>
            /\ file.kind = "complete"
            /\ Keys(file.data) = succeeded
            /\ Len(file.data) = Cardinality(succeeded)
            /\ Cardinality(succeeded) <= k)
    /\ [][lastSnap.some => Keys(lastSnap.data) \subseteq Keys(lastSnap'.data)]_vars

\* two occurrences of one identifier both succeeded and the document is saved
C1_Witness ==
    /\ pc = "m_saved"
    /\ k = 2
    /\ Cardinality(succeeded) = 1
    /\ Len(file.data) = 1

\* ------------------------------------------------------------------- C2
\* C2: when process_tables has returned, every identifier that had fields and
\* whose transformer failed (error, malformed JSON, empty output) has an entry.
C2_FailureGetsFallback == HasReturned => due \subseteq Keys(structures)

\* ------------------------------------------------------------------- C3
\* C3: right after an insertion made from an output that json.loads rejects,
\* the schema under the identifier has the name, the description and, in the
\* same number and order, the five values of every field of table_info.
C3_FallbackIsIdentity ==
    (pc \in {"open", "dump"} /\ result.syntax \in {"garbage", "empty"}) =>
        /\ table_names[i] \in Keys(structures)
        /\ LET v == Value(structures, table_names[i])
           IN  /\ v.kind = "dict"
               /\ v.name = table_info.table_name
               /\ v.name = table_names[i]
               /\ v.description = table_info.description
               /\ Len(v.fields) = Len(table_info.fields)
               /\ Len(v.fields) > 0
               /\ \A j \in 1..Len(v.fields) :
                      /\ v.fields[j].name = table_info.fields[j].name
                      /\ v.fields[j].data_element = table_info.fields[j].data_element
                      /\ v.fields[j].type = table_info.fields[j].type
                      /\ v.fields[j].length = table_info.fields[j].length
                      /\ v.fields[j].decimals = table_info.fields[j].decimals

\* the transformer answered `not json` for a table_info with two fields
C3_Witness ==
    /\ pc = "open"
    /\ result.syntax = "garbage"
    /\ Len(table_info.fields) = 2
    /\ table_info.fields[1] # table_info.fields[2]
    /\ Value(structures, table_names[i]).fields = table_info.fields

\* ------------------------------------------------------------------- C4
\* the identifier at position i was given up: a skip or an error was logged
ItemFailed ==
    /\ pc = "loop"
    /\ i >= 1
    /\ log.id = table_names[i]
    /\ log.msg \in {"No se encontro informacion", "no tiene campos definidos",
                    "no genero campos validos", "Error generando estructura"}

\* C4 as stated: an identifier that failed at any stage, persistence
\* included, is absent from the ResultSet, and the loop reaches the end.
C4_FailedIsAbsent ==
    /\ ItemFailed => table_names[i] \notin Keys(structures)
    /\ HasReturned => i = Len(table_names)

SameEntry(id) ==
    /\ (id \in Keys(structures)) <=> (id \in Keys(structures'))
    /\ id \in Keys(structures) => Value(structures', id) = Value(structures, id)

\* C4 (amended): the identifiers are handled once each in the order of the
\* list up to the last; a failure at fetch, extraction or normalization
\* leaves the ResultSet as it was; a failure at persistence comes after the
\* insertion and leaves the entry in the ResultSet; no step of one identifier
\* changes the entry of another identifier; every failure leads to the head
\* of the loop.
C4_FaultIsolation ==
    /\ [](HasReturned => i = Len(table_names))
    /\ [](InBatch => i <= Len(table_names))
    /\ [][/\ i' = i \/ (i' = i + 1 /\ pc = "loop" /\ pc' = "fetch")
          /\ (pc = "fetch" /\ pc' # "crashed") =>
                 table_info'.is_none \/ table_info'.table_name = table_names[i]
          /\ (pc \in {"fetch", "normalize"} /\ pc' # "open") => structures' = structures
          /\ (pc \in {"open", "dump"} /\ log' # log) =>
                 /\ structures' = structures
                 /\ table_names[i] \in Keys(structures)
                 /\ pc' = "loop"
          /\ InBatch => \A id \in Ids :
                 (i' = 0 \/ id # table_names[i']) => SameEntry(id)
          /\ InBatch => pc' \in {"loop", "fetch", "normalize", "open", "dump",
                                 "returned", "m_open", "crashed"}
         ]_vars

\* the second identifier was inserted and its write failed; the first keeps
\* its entry and the loop is back at its head
C4_Witness ==
    /\ pc = "loop"
    /\ i = 2
    /\ Len(structures) = 2
    /\ log = LogRecord("ERROR", "Error generando estructura", table_names[2])
    /\ HasFields(json_structure)
    /\ file # Dumped(structures)

C6_NoEmptySchemaWritten ==
    /\ file.kind \in {"partial", "complete"} =>
          \A j \in 1..Len(file.data) : HasFields(file.data[j].value)
    /\ tcurr_file.kind \in {"partial", "complete"} =>
          \A j \in 1..Len(tcurr_file.data) : HasFields(tcurr_file.data[j].value)

\* ------------------------------------------------------------------- C7
\* C7: when the process is terminated after a first snapshot was saved, the
\* document is whole and is the last snapshot that was saved.
C7_CrashConsistent ==
    (pc = "crashed" /\ lastSnap.some) => file = Dumped(lastSnap.data)

\* ------------------------------------------------------------------- C8
\* C8: when process_tables starts on an identifier, or returns, after an
\* insertion, the document is the ResultSet in memory.
C8_DocumentIsResultSet ==
    (pc \in {"fetch", "returned", "m_open"} /\ structures # <<>>) =>
        file = Dumped(structures)

\* ------------------------------------------------------------------ C10
\* C10 as stated: no step removes a key or changes the value under a key.
C10_EntriesImmutable ==
    [][\A id \in Keys(structures) :
          /\ id \in Keys(structures')
          /\ Value(structures', id) = Value(structures, id)]_vars

\* C10 (amended): no step removes a key or moves it; the value under a key
\* changes only when a later occurrence of the same identifier is inserted,
\* and it is then the schema of that occurrence.
C10_GrowsAndReplacesOnlyOnRepeat ==
    [][/\ Len(structures') >= Len(structures)
       /\ \A j \in 1..Len(structures) :
            /\ structures'[j].key = structures[j].key
            /\ structures'[j].value # structures[j].value =>
                  /\ pc = "normalize"
                  /\ table_names[i] = structures[j].key
                  /\ \E p \in 1..(i - 1) : table_names[p] = table_names[i]
                  /\ structures'[j].value = json_structure'
                  /\ Len(structures') = Len(structures)
       /\ Cardinality(Keys(structures')) = Len(structures')]_vars

\* the second occurrence of an identifier replaced the schema that the first
\* occurrence had saved
C10_Witness ==
    /\ pc = "open"
    /\ i = 2
    /\ table_names[1] = table_names[2]
    /\ Len(structures) = 1
    /\ lastSnap.some
    /\ lastSnap.data[1].key = structures[1].key
    /\ lastSnap.data[1].value # structures[1].value

\* ------------------------------------------------------------------- C9
\* t is the text cell without the white space around it
TrimmedOf(t, cell) ==
    /\ t = <<>> \/ (t[1] # " " /\ t[Len(t)] # " ")
    /\ \E a \in 0..Len(cell) :
          /\ a + Len(t) <= Len(cell)
          /\ \A p \in 1..Len(cell) :
                IF p > a /\ p <= a + Len(t) THEN cell[p] = t[p - a] ELSE cell[p] = " "

\* C9: the fields are, in document order, one record for each row after the
\* first of the first table that has at least 4 cells, made of the trimmed
\* texts of cells 0, 1 and 3, of cell 4 when there are 5 cells and of cell 5
\* when there are 6, else ""; a page without table gives no field.
C9_FieldRows ==
    extractor.pc = "extracted" =>
        LET soup   == extractor.soup
            fields == extractor.fields
        IN  IF soup.tables = <<>> THEN fields = <<>>
            ELSE LET rows == soup.tables[1]
                     qualifying == {r \in 2..Len(rows) : Len(rows[r]) >= 4}
                     rank(r) == Cardinality({q \in qualifying : q <= r})
                 IN  /\ Len(fields) = Cardinality(qualifying)
                     /\ \A r \in qualifying :
                          LET f == fields[rank(r)]
                              cells == rows[r]
                          IN  /\ DOMAIN f = {"name", "data_element", "type", "length", "decimals"}
                              /\ TrimmedOf(f.name, cells[1])
                              /\ TrimmedOf(f.data_element, cells[2])
                              /\ TrimmedOf(f.type, cells[4])
                              /\ IF Len(cells) >= 5 THEN TrimmedOf(f.length, cells[5])
                                 ELSE f.length = <<>>
                              /\ IF Len(cells) >= 6 THEN TrimmedOf(f.decimals, cells[6])
                                 ELSE f.decimals = <<>>

\* a table whose rows after the header have 3, 4 and 6 cells: two records,
\* the first with empty length and decimals
C9_Witness ==
    /\ extractor.pc = "extracted"
    /\ Len(extractor.soup.tables) = 2
    /\ Len(extractor.soup.tables[1]) = 4
    /\ Len(extractor.soup.tables[1][2]) = 3
    /\ Len(extractor.soup.tables[1][3]) = 4
    /\ Len(extractor.soup.tables[1][4]) = 6
    /\ Len(extractor.fields) = 2
    /\ extractor.fields[1].name = <<"c", "0">>
    /\ extractor.fields[1].length = <<>>
    /\ extractor.fields[1].decimals = <<>>
    /\ extractor.fields[2].decimals = <<"d", "5">>

=============================================================================
